---- MODULE Spec2Model ----
(***************************************************************************)
(* WebLC3: the two-pass LC-3 assembler (Assembler.assemble) and the        *)
(* simulator (Simulator) of src/logic/assembler/assembler.ts.              *)
(*                                                                         *)
(* Source lines are modelled after Parser.trimLine / Parser.tokenizeLine:  *)
(* a line is the sequence of its lower-cased tokens, a blank or            *)
(* comment-only line is the empty sequence.  Line numbers and image        *)
(* offsets are 0-based as in the code; TLA+ sequences are 1-based, so      *)
(* srcLines[lineNum] of the code is srcLines[lineNum + 1] here.            *)
(***************************************************************************)
EXTENDS Integers, Sequences, FiniteSets, TLC

VARIABLES
    \* ---- Assembler.assemble: locals and the caller-visible outcome
    srcLines,       \* sourceCode.split(/[\n\r]+/), canonicalised
    phase,          \* position in assemble: start, passOne, passTwo, done, threw
    hasError,
    asmMemory,      \* `memory`: the words emitted so far, by image offset
    labels,         \* label name -> image offset
    toFix,          \* insertion-ordered <<tokens, loc>>
    addrToCode,     \* set of absolute addresses that received an instruction
    addrToLineNum,  \* image offset -> line number
    startOffset,
    lineNum,
    asmPc,          \* `pc`: the image offset of the next word
    atEnd,
    fixIdx,         \* position of the for-loop over toFix
    printed,        \* FakeUI.print calls so far, as <<lineNum, kind>>
    returned,       \* none, null, image or threw
    objImage,       \* the Uint16Array returned on success
    lastRead,       \* greatest index of srcLines handed to Parser.trimLine
    \* ---- Simulator: fields
    memory,         \* sparse 2^16-word array: address -> non-zero word
    pc,
    userMode, priorityLevel, flagNegative, flagZero, flagPositive,
    interruptSignal, interruptPriority, interruptVector,
    registers,
    savedUSP, savedSSP,
    breakPoints,
    objFile,
    \* ---- Simulator: position of the run() loop and history
    running,        \* TRUE while run() is between two of its cycles
    cycles,         \* instruction cycles executed so far
    lastCycle,      \* what the most recent instructionCycle returned
    \* ---- Simulator: position of stepOut() / stepOver() and their locals
    stepping,       \* none, stepOut, stepOver, or stepOverOut: the stepOut
                    \* that stepOver called
    currDepth,      \* stepOut's local
    depth,          \* stepOver's local
    lastOp          \* the method of Simulator that acted last (set for
                    \* the setters of the inspection API)

asmVars == <<srcLines, phase, hasError, asmMemory, labels, toFix, addrToCode,
             addrToLineNum, startOffset, lineNum, asmPc, atEnd, fixIdx,
             printed, returned, objImage, lastRead>>

simVars == <<memory, pc, userMode, priorityLevel, flagNegative, flagZero,
             flagPositive, interruptSignal, interruptPriority,
             interruptVector, registers, savedUSP, savedSSP, breakPoints,
             objFile,
             running, cycles, lastCycle, stepping, currDepth, depth, lastOp>>

vars == <<asmVars, simVars>>

\* ------------------------------------------------------------------ bounds
\* lines following the .ORIG line in the general assembler inputs
MaxBody == 3
\* lines following the .ORIG line in the label-distance inputs
MaxFixBody == 3
\* instruction cycles the simulator may execute in one behaviour
MaxCycles == 3

\* ------------------------------------------------------- words and bit ops
WordMod == 65536

\* JavaScript's not-a-number (also what a hole in `memory` reads as)
NaN == -1000000

isNaN(x) == x = NaN

RECURSIVE BitOr(_, _)
\* a | b for non-negative a, b
BitOr(a, b) ==
    IF a = 0 THEN b
    ELSE IF b = 0 THEN a
    ELSE (IF (a % 2 = 1) \/ (b % 2 = 1) THEN 1 ELSE 0) + 2 * BitOr(a \div 2, b \div 2)

RECURSIVE BitAnd(_, _)
\* a & b for non-negative a, b
BitAnd(a, b) ==
    IF a = 0 \/ b = 0 THEN 0
    ELSE (IF (a % 2 = 1) /\ (b % 2 = 1) THEN 1 ELSE 0) + 2 * BitAnd(a \div 2, b \div 2)

\* ---------------------------------------------------------- Assembler tables
opCodes ==
    {"add", "and", "br", "brn", "brz", "brp",
     "brnz", "brnp", "brzp", "brnzp", "jmp", "jsr",
     "jsrr", "ld", "ldi", "ldr", "lea", "not",
     "ret", "rti", "st", "sti", "str", "trap",
     "getc", "halt", "in", "out", "puts", "putsp"}

directives == {".orig", ".end", ".fill", ".blkw", ".stringz"}

operandCounts ==
    [t \in (opCodes \cup (directives \ {".blkw"})) |->
        CASE t \in {"add", "and", "ldr", "str"} -> 3
          [] t \in {"ld", "ldi", "lea", "not", "st", "sti"} -> 2
          [] t \in {"br", "brn", "brz", "brp", "brnz", "brnp", "brzp", "brnzp",
                    "jmp", "jsr", "jsrr", "trap", ".orig", ".fill", ".stringz"} -> 1
          [] OTHER -> 0]

validOperandCount(tokens) ==
    IF tokens[1] = ".blkw"
    THEN Len(tokens) = 2 \/ Len(tokens) = 3
    ELSE tokens[1] \in DOMAIN operandCounts
         /\ Len(tokens) - 1 = operandCounts[tokens[1]]

\* ------------------------- Parser (parser.ts), after the specification
\* tokens of the inputs that begin with '.'
DotTokens == directives \cup {".origin", ".foo"}

StartsWithDot(tok) == tok \in DotTokens

\* currLine.startsWith(".orig"): the line's text begins with these five
\* characters, whatever follows them
StartsWithOrig(line) == Len(line) > 0 /\ line[1] \in {".orig", ".origin"}

\* numeric literals of the inputs and the number each denotes
ImmLiteral ==
    ("x3000" :> 12288) @@ ("x0" :> 0) @@ ("xffff" :> 65535) @@
    ("xdead" :> 57005) @@ ("x25" :> 37) @@ ("#5" :> 5) @@ ("#0" :> 0) @@
    ("#99" :> 99) @@ ("#-1" :> -1) @@ ("1" :> 1) @@ ("2" :> 2) @@
    ("254" :> 254) @@ ("255" :> 255) @@ ("256" :> 256) @@
    ("1023" :> 1023) @@ ("1024" :> 1024)

DecimalToks ==
    {"#5", "#0", "#99", "#-1", "1", "2", "254", "255", "256", "1023", "1024"}

isImmediate(tok) == tok \in DOMAIN ImmLiteral

\* Parser.parseImmediate: the literal's bit pattern in `bits` bits, NaN when
\* the token is no literal or the literal is out of range
parseImmediate(tok, signed, bits) ==
    IF ~isImmediate(tok) THEN NaN
    ELSE LET v == ImmLiteral[tok]
             dec == signed /\ tok \in DecimalToks
             lo == IF dec THEN 0 - 2 ^ (bits - 1) ELSE 0
             hi == IF dec THEN 2 ^ (bits - 1) - 1 ELSE 2 ^ bits - 1
         IN  IF v < lo \/ v > hi THEN NaN ELSE v % (2 ^ bits)

RegNum ==
    ("r0" :> 0) @@ ("r1" :> 1) @@ ("r2" :> 2) @@ ("r3" :> 3) @@
    ("r4" :> 4) @@ ("r5" :> 5) @@ ("r6" :> 6) @@ ("r7" :> 7)

parseReg(tok) == IF tok \in DOMAIN RegNum THEN RegNum[tok] ELSE NaN

\* characters of the string literals of the inputs
StringChars == ("\"Hi\"" :> <<72, 105>>)

\* Parser.getImmBitCount: width of the PC-offset field
getImmBitCount(op) == IF op = "jsr" THEN 11 ELSE 9

BrOps == {"br", "brn", "brz", "brp", "brnz", "brnp", "brzp", "brnzp"}

BrFlags(op) ==
    CASE op \in {"br", "brnzp"} -> 7
      [] op = "brn" -> 4 [] op = "brz" -> 2 [] op = "brp" -> 1
      [] op = "brnz" -> 6 [] op = "brnp" -> 5 [] op = "brzp" -> 3

TrapAlias ==
    ("getc" :> 32) @@ ("out" :> 33) @@ ("puts" :> 34) @@ ("in" :> 35) @@
    ("putsp" :> 36) @@ ("halt" :> 37)

PcOffsetOps == {"ld", "ldi", "lea", "st", "sti"}

OpBits(op) ==
    CASE op = "add" -> 1 [] op = "and" -> 5 [] op = "ld" -> 2 [] op = "st" -> 3
      [] op = "ldi" -> 10 [] op = "sti" -> 11 [] op = "lea" -> 14
      [] op = "ldr" -> 6 [] op = "str" -> 7 [] op = "not" -> 9

\* an operand that is a label contributes zero to the offset field
OffsetField(tok, bits) ==
    IF isImmediate(tok) THEN parseImmediate(tok, TRUE, bits) ELSE 0

\* the fields of an instruction word, NaN as soon as one of them is NaN
Fields(opc, parts) ==
    IF \E i \in DOMAIN parts : isNaN(parts[i][1]) THEN NaN
    ELSE opc * 4096
         + (IF Len(parts) >= 1 THEN parts[1][1] * parts[1][2] ELSE 0)
         + (IF Len(parts) >= 2 THEN parts[2][1] * parts[2][2] ELSE 0)
         + (IF Len(parts) >= 3 THEN parts[3][1] * parts[3][2] ELSE 0)

\* Parser.parseCode, the word: the ISA bit layout of section 6.2
encodeWord(tokens) ==
    LET op == tokens[1] IN
    CASE op \in {"add", "and"} ->
            IF tokens[4] \in DOMAIN RegNum
            THEN Fields(OpBits(op), <<<<parseReg(tokens[2]), 512>>,
                                      <<parseReg(tokens[3]), 64>>,
                                      <<parseReg(tokens[4]), 1>>>>)
            ELSE Fields(OpBits(op), <<<<parseReg(tokens[2]), 512>>,
                                      <<parseReg(tokens[3]), 64>>,
                                      <<IF isNaN(parseImmediate(tokens[4], TRUE, 5))
                                        THEN NaN
                                        ELSE 32 + parseImmediate(tokens[4], TRUE, 5), 1>>>>)
      [] op = "not" ->
            Fields(9, <<<<parseReg(tokens[2]), 512>>, <<parseReg(tokens[3]), 64>>,
                        <<63, 1>>>>)
      [] op \in BrOps ->
            Fields(0, <<<<BrFlags(op), 512>>, <<OffsetField(tokens[2], 9), 1>>>>)
      [] op \in PcOffsetOps ->
            Fields(OpBits(op), <<<<parseReg(tokens[2]), 512>>,
                                 <<OffsetField(tokens[3], 9), 1>>>>)
      [] op \in {"ldr", "str"} ->
            Fields(OpBits(op), <<<<parseReg(tokens[2]), 512>>,
                                 <<parseReg(tokens[3]), 64>>,
                                 <<parseImmediate(tokens[4], TRUE, 6), 1>>>>)
      [] op = "jsr" ->
            Fields(4, <<<<1, 2048>>, <<OffsetField(tokens[2], 11), 1>>>>)
      [] op \in {"jmp", "jsrr"} ->
            Fields(IF op = "jmp" THEN 12 ELSE 4, <<<<parseReg(tokens[2]), 64>>>>)
      [] op = "ret" -> 49600
      [] op = "rti" -> 32768
      [] op = "trap" -> Fields(15, <<<<parseImmediate(tokens[2], FALSE, 8), 1>>>>)
      [] op \in DOMAIN TrapAlias -> 61440 + TrapAlias[op]

\* Parser.parseCode, the fixup: the last operand of a PC-relative
\* instruction is a label
needsFix(tokens) ==
    /\ tokens[1] \in BrOps \cup PcOffsetOps \cup {"jsr"}
    /\ ~isImmediate(tokens[Len(tokens)])

\* Parser.calcLabelOffset: the offset masked to `bits` bits, NaN when the
\* label is unknown or the distance does not fit
calcLabelOffset(label, loc, labs, bits) ==
    IF label \notin DOMAIN labs THEN NaN
    ELSE LET d == labs[label] - (loc + 1)
             lim == 2 ^ (bits - 1)
         IN  IF d >= lim \/ d <= 0 - lim THEN NaN ELSE d % (2 ^ bits)

\* A JavaScript number[] or Uint16Array: its length and its non-zero
\* elements by 0-based index (an index below len and outside DOMAIN w holds 0;
\* a hole of a number[] holds NaN, which is what isNaN and > see of undefined)
EmptyArr == [len |-> 0, w |-> [x \in {} |-> 0]]

At(arr, i) == IF i \in DOMAIN arr.w THEN arr.w[i] ELSE 0

\* arr[i + k] = vals[k + 1] for every k, on a number[]
SetSlice(arr, i, vals) ==
    LET n == Len(vals)
        newLen == IF i + n > arr.len THEN i + n ELSE arr.len
        val(k) == IF k >= i /\ k < i + n THEN vals[k - i + 1]
                  ELSE IF k < arr.len THEN At(arr, k) ELSE NaN
        dom == {k \in (DOMAIN arr.w) \cup (i .. (i + n - 1))
                          \cup (arr.len .. (i + n - 1)) : val(k) # 0}
    IN  [len |-> newLen, w |-> [k \in dom |-> val(k)]]

\* memory[i] = v
SetAt(arr, i, v) == SetSlice(arr, i, <<v>>)

\* memory[loc + i] = v for i = 0 .. n - 1
SetRange(arr, loc, n, v) ==
    IF n <= 0 THEN arr ELSE SetSlice(arr, loc, [k \in 1 .. n |-> v])

\* ------------------------------------------------------- assembler inputs
Blank == <<>>

\* what a source may open with, up to and including its first non-blank line
GoodHeads ==
    {<<<<".orig", "x3000">>>>, <<<<".orig", "x0">>>>, <<<<".orig", "xffff">>>>,
     <<Blank, <<".orig", "x3000">>>>}

BadHeads ==
    {<<Blank>>, <<Blank, Blank>>, <<<<"halt">>>>, <<Blank, <<"halt">>>>,
     <<<<".orig">>>>, <<<<".origin", "x3000">>>>, <<<<".orig", "bad">>>>,
     <<<<"a", ".orig", "x3000">>>>, <<<<".fill", "x0">>>>}

BodyLines ==
    {Blank,
     <<"halt">>, <<"halt", "r0">>,
     <<"add", "r0", "r0", "#99">>,
     <<"a", "add", "r0", "r0", "#5">>,
     <<"brnzp", "a">>, <<"lea", "r0", "u">>,
     <<".fill">>, <<".fill", "xdead">>, <<".fill", "a">>,
     <<".blkw", "2", "a">>, <<".blkw", "1", "2", "a">>,
     <<".stringz", "\"Hi\"">>,
     <<"a", "foo">>,
     <<".end">>}

FixBodyLines ==
    {<<"a">>, <<"br", "a">>, <<"jsr", "a">>, <<"br", "u">>,
     <<".blkw", "254">>, <<".blkw", "255">>, <<".blkw", "256">>,
     <<".blkw", "1023">>, <<".blkw", "1024">>}

FixHeads == {<<<<".orig", "x3000">>>>}

SeqsUpTo(S, n) == UNION {[1 .. k -> S] : k \in 0 .. n}

Sources(n) ==
    {h \o b : h \in GoodHeads, b \in SeqsUpTo(BodyLines, n)}
    \cup {h \o b : h \in BadHeads, b \in SeqsUpTo({<<"halt">>, Blank}, 1)}

FixSources(n) == {h \o b : h \in FixHeads, b \in SeqsUpTo(FixBodyLines, n)}

EmptyMap == [x \in {} |-> 0]

Put(f, k, v) == [x \in (DOMAIN f) \cup {k} |-> IF x = k THEN v ELSE f[x]]

\* ------------------------------------------------------ Assembler.assemble
\* the locals one pass-one line or one fixup may change
Cur ==
    [memory |-> asmMemory, pc |-> asmPc, hasError |-> hasError,
     printed |-> printed, toFix |-> toFix, atEnd |-> atEnd,
     addrToCode |-> addrToCode]

Emit(s, ln, kind) == [s EXCEPT !.printed = Append(@, <<ln, kind>>)]

RECURSIVE firstNonBlank(_, _)
\* the index the scan for the first non-empty line stops at; Len(lines) when
\* the scan runs off the end of srcLines
firstNonBlank(lines, i) ==
    IF i >= Len(lines) THEN i
    ELSE IF lines[i + 1] # Blank THEN i
    ELSE firstNonBlank(lines, i + 1)

\* the outcome of a return before pass one
EarlyReturn(ln, kind) ==
    /\ printed' = Append(printed, <<ln, kind>>)
    /\ returned' = "null"
    /\ phase' = "done"
    /\ UNCHANGED startOffset

\* lines 69-130: split, scan for the first non-empty line, read .ORIG
ScanOrig ==
    /\ phase = "start"
    /\ IF Len(srcLines) = 0
       THEN EarlyReturn(0, "INFILE") /\ UNCHANGED <<lineNum, lastRead>>
       ELSE LET j == firstNonBlank(srcLines, 0) IN
            /\ lineNum' = j
            /\ lastRead' = j
            /\ IF j >= Len(srcLines)
               THEN \* Parser.trimLine(undefined)
                    /\ phase' = "threw"
                    /\ returned' = "threw"
                    /\ UNCHANGED <<printed, startOffset>>
               ELSE LET tokens == srcLines[j + 1]  \* currLine.split(/\s+/)
                    IN
                    IF ~StartsWithOrig(tokens)
                    THEN EarlyReturn(j, "FIRSTLINE")
                    ELSE IF ~validOperandCount(tokens)
                    THEN EarlyReturn(j, "operandCount")
                    ELSE IF isNaN(parseImmediate(tokens[2], FALSE, 16))
                    THEN EarlyReturn(j, "immediate")
                    ELSE /\ startOffset' = parseImmediate(tokens[2], FALSE, 16)
                         /\ phase' = "passOne"
                         /\ UNCHANGED <<printed, returned>>
    /\ UNCHANGED <<srcLines, hasError, asmMemory, labels, toFix, addrToCode,
                   addrToLineNum, asmPc, atEnd, fixIdx, objImage>>
    /\ UNCHANGED simVars

\* lines 157-162 and 180-185: the operand count is wrong, `continue`
badOperandCountSkipsCheck(ln, tokens, s) ==
    [s EXCEPT !.memory = SetAt(@, s.pc, 0), !.pc = @ + 1]

badOperandCount(ln, tokens, s) ==
    [Emit(s, ln, "operandCount") EXCEPT !.hasError = TRUE]

\* Parser.parseDirective: the words a directive emits, the fixup it pushes
\* and its pcInc
parseDirective(ln, tokens, s) ==
    LET d == tokens[1]
        failed == [st |-> Emit(s, ln, "immediate"), pcInc |-> 0]
    IN
    CASE d = ".end" -> [st |-> s, pcInc |-> 0 - 1]
      [] d = ".fill" ->
            IF isImmediate(tokens[2])
            THEN IF isNaN(parseImmediate(tokens[2], TRUE, 16)) THEN failed
                 ELSE [st |-> [s EXCEPT !.memory =
                                  SetAt(@, s.pc, parseImmediate(tokens[2], TRUE, 16))],
                       pcInc |-> 1]
            ELSE [st |-> [s EXCEPT !.memory = SetAt(@, s.pc, 0),
                                   !.toFix = Append(@, <<tokens, s.pc>>)],
                  pcInc |-> 1]
      [] d = ".blkw" ->
            LET n == parseImmediate(tokens[2], FALSE, 16) IN
            IF isNaN(n) THEN failed
            ELSE [st |-> [s EXCEPT !.memory = SetRange(@, s.pc, n, 0),
                                   !.toFix = IF Len(tokens) = 3
                                             THEN Append(@, <<tokens, s.pc>>)
                                             ELSE @],
                  pcInc |-> n]
      [] d = ".stringz" ->
            IF tokens[2] \notin DOMAIN StringChars THEN failed
            ELSE LET cs == StringChars[tokens[2]] \o <<0>> IN
                 [st |-> [s EXCEPT !.memory = SetSlice(@, s.pc, cs)],
                  pcInc |-> Len(cs)]
      [] OTHER -> failed

\* lines 163-175: what assemble does with the directive's pcInc
applyDirective(ln, tokens, s) ==
    LET r == parseDirective(ln, tokens, s) IN
    IF r.pcInc < 0 THEN [r.st EXCEPT !.atEnd = TRUE]
    ELSE IF r.pcInc = 0 THEN [r.st EXCEPT !.hasError = TRUE]
    ELSE [r.st EXCEPT !.pc = @ + r.pcInc]

\* Parser.parseCode: the word, the diagnostic of a failed encoding, the
\* fixup of a label operand
parseCode(ln, tokens, s) ==
    LET w == encodeWord(tokens) IN
    IF isNaN(w) THEN [st |-> Emit(s, ln, "immediate"), word |-> NaN]
    ELSE [st |-> IF needsFix(tokens)
                 THEN [s EXCEPT !.toFix = Append(@, <<tokens, s.pc>>)]
                 ELSE s,
          word |-> w]

\* lines 186-196
applyInstruction(ln, tokens, s) ==
    LET r == parseCode(ln, tokens, s) IN
    IF ~isNaN(r.word)
    THEN [r.st EXCEPT !.memory = SetAt(@, s.pc, r.word),
                      !.addrToCode = @ \cup {s.pc + startOffset},
                      !.pc = @ + 1]
    ELSE [r.st EXCEPT !.memory = SetAt(@, s.pc, 0), !.pc = @ + 1]

\* lines 198-202 with the ++pc of line 196 added
unknownMnemonicAdvances(ln, tokens, s) ==
    [Emit(s, ln, "unknownMnemonic") EXCEPT !.hasError = TRUE, !.pc = @ + 1]

\* lines 198-202
unknownMnemonic(ln, tokens, s) ==
    [Emit(s, ln, "unknownMnemonic") EXCEPT !.hasError = TRUE]

\* lines 154-202: dispatch on the first token after the label
lineBody(ln, tokens, s) ==
    IF tokens[1] \in directives
    THEN IF ~validOperandCount(tokens) THEN badOperandCount(ln, tokens, s)
         ELSE applyDirective(ln, tokens, s)
    ELSE IF tokens[1] \in opCodes
    THEN IF ~validOperandCount(tokens) THEN badOperandCount(ln, tokens, s)
         ELSE applyInstruction(ln, tokens, s)
    ELSE unknownMnemonic(ln, tokens, s)

isLabelToken(tok) == ~StartsWithDot(tok) /\ tok \notin opCodes

SetCur(r) ==
    /\ asmMemory' = r.memory
    /\ asmPc' = r.pc
    /\ hasError' = r.hasError
    /\ printed' = r.printed
    /\ toFix' = r.toFix
    /\ atEnd' = r.atEnd
    /\ addrToCode' = r.addrToCode

\* lines 134-204: one iteration of the pass-one loop
PassOneLine ==
    /\ phase = "passOne"
    /\ ~atEnd
    /\ lineNum + 1 < Len(srcLines)
    /\ LET ln == lineNum + 1
           currLine == srcLines[ln + 1]
           isLabel == currLine # Blank /\ isLabelToken(currLine[1])
           tokens == IF isLabel THEN Tail(currLine) ELSE currLine
       IN
       /\ lineNum' = ln
       /\ lastRead' = ln
       /\ IF currLine = Blank
          THEN UNCHANGED <<addrToLineNum, labels>> /\ SetCur(Cur)
          ELSE /\ addrToLineNum' = Put(addrToLineNum, asmPc, ln)
               /\ labels' = IF isLabel THEN Put(labels, currLine[1], asmPc) ELSE labels
               /\ IF tokens = <<>> THEN SetCur(Cur)
                  ELSE SetCur(lineBody(ln, tokens, Cur))
    /\ UNCHANGED <<srcLines, phase, startOffset, fixIdx, returned, objImage>>
    /\ UNCHANGED simVars

\* line 134: the loop condition fails
PassOneExit ==
    /\ phase = "passOne"
    /\ atEnd \/ lineNum + 1 >= Len(srcLines)
    /\ phase' = "passTwo"
    /\ lineNum' = IF atEnd THEN lineNum ELSE lineNum + 1
    /\ fixIdx' = 1
    /\ UNCHANGED <<srcLines, hasError, asmMemory, labels, toFix, addrToCode,
                   addrToLineNum, startOffset, asmPc, atEnd, printed, returned,
                   objImage, lastRead>>
    /\ UNCHANGED simVars

Failed(ln, kind, s) == [Emit(s, ln, kind) EXCEPT !.hasError = TRUE]

\* lines 223-235
fixFill(tokens, loc, ln, s) ==
    IF tokens[2] \notin DOMAIN labels THEN Failed(ln, "badLabel", s)
    ELSE [s EXCEPT !.memory = SetAt(@, loc, labels[tokens[2]])]

\* lines 236-260 with the loop of line 243 running to i <= amt
fixBlkwOneTooMany(tokens, loc, ln, s) ==
    IF tokens[3] \in DOMAIN labels
    THEN LET amt == parseImmediate(tokens[2], FALSE, 16) IN
         IF ~isNaN(amt)
         THEN [s EXCEPT !.memory = SetRange(@, loc, amt + 1, labels[tokens[3]] + startOffset)]
         ELSE Failed(ln, "badLabel", s)
    ELSE Failed(ln, "badLabel", s)

\* lines 236-260
fixBlkw(tokens, loc, ln, s) ==
    IF tokens[3] \in DOMAIN labels
    THEN LET amt == parseImmediate(tokens[2], FALSE, 16) IN
         IF ~isNaN(amt)
         THEN [s EXCEPT !.memory = SetRange(@, loc, amt, labels[tokens[3]] + startOffset)]
         ELSE Failed(ln, "badLabel", s)
    ELSE Failed(ln, "badLabel", s)

\* lines 261-280, with the error of a NaN offset dropped
fixInstrIgnoresNaN(tokens, loc, ln, s) ==
    LET offset == calcLabelOffset(tokens[Len(tokens)], loc, labels,
                                  getImmBitCount(tokens[1])) IN
    IF ~isNaN(offset)
    THEN [s EXCEPT !.memory = SetAt(@, loc, BitOr(At(s.memory, loc), offset))]
    ELSE s

\* lines 261-280
fixInstr(tokens, loc, ln, s) ==
    LET offset == calcLabelOffset(tokens[Len(tokens)], loc, labels,
                                  getImmBitCount(tokens[1])) IN
    IF ~isNaN(offset)
    THEN [s EXCEPT !.memory = SetAt(@, loc, BitOr(At(s.memory, loc), offset))]
    ELSE Failed(ln, "badLabel", s)

\* lines 207-281: one iteration of the loop over toFix
FixupEntry ==
    /\ phase = "passTwo"
    /\ fixIdx <= Len(toFix)
    /\ LET tokens == toFix[fixIdx][1]
           loc == toFix[fixIdx][2]
           known == loc \in DOMAIN addrToLineNum
           ln == IF known THEN addrToLineNum[loc] ELSE 0 - 1
           s == IF known THEN Cur ELSE Emit(Cur, ln, "noLineNumForAddr")
       IN
       /\ lineNum' = ln
       /\ SetCur(IF tokens[1] = ".fill" THEN fixFill(tokens, loc, ln, s)
                 ELSE IF tokens[1] = ".blkw" THEN fixBlkw(tokens, loc, ln, s)
                 ELSE fixInstr(tokens, loc, ln, s))
    /\ fixIdx' = fixIdx + 1
    /\ UNCHANGED <<srcLines, phase, labels, addrToLineNum, startOffset,
                   returned, objImage, lastRead>>
    /\ UNCHANGED simVars

\* new Uint16Array(n)[i] = v
ToUint16(v) == v % WordMod

\* lines 284-302 with the words stored one slot early
resultWordsShifted(mem, origin) ==
    LET val(k) == IF k = mem.len THEN ToUint16(origin)
                  ELSE IF At(mem, k) > 65535 \/ isNaN(At(mem, k)) THEN 0
                  ELSE ToUint16(At(mem, k))
        dom == {k \in (DOMAIN mem.w) \cup {mem.len} : val(k) # 0}
    IN  [len |-> mem.len + 1, w |-> [k \in dom |-> val(k)]]

\* lines 284-302: the Uint16Array the final loop fills
resultWords(mem, origin) ==
    LET val(k) == IF k = 0 THEN ToUint16(origin)
                  ELSE IF At(mem, k - 1) > 65535 \/ isNaN(At(mem, k - 1)) THEN 0
                  ELSE ToUint16(At(mem, k - 1))
        dom == {k \in {0} \cup {j + 1 : j \in DOMAIN mem.w} : val(k) # 0}
    IN  [len |-> mem.len + 1, w |-> [k \in dom |-> val(k)]]

IsDiag(e) == e[2] # "ok"

\* lines 286-302: the diagnostics of the final loop, in offset order
wordDiags(mem) ==
    SelectSeq([k \in 1 .. mem.len |->
                  <<k - 1, IF At(mem, k - 1) > 65535 THEN "badMemory"
                           ELSE IF isNaN(At(mem, k - 1)) THEN "nanMemory"
                           ELSE "ok">>],
              IsDiag)

\* lines 283-310: the final word check and the return
WordCheck ==
    /\ phase = "passTwo"
    /\ fixIdx > Len(toFix)
    /\ LET err == hasError \/ \E k \in DOMAIN asmMemory.w : asmMemory.w[k] > 65535 IN
       /\ hasError' = err
       /\ printed' = printed \o wordDiags(asmMemory)
       /\ returned' = IF err THEN "null" ELSE "image"
       /\ objImage' = IF err THEN EmptyArr ELSE resultWords(asmMemory, startOffset)
    /\ phase' = "done"
    /\ UNCHANGED <<srcLines, asmMemory, labels, toFix, addrToCode,
                   addrToLineNum, startOffset, lineNum, asmPc, atEnd, fixIdx,
                   lastRead>>
    /\ UNCHANGED simVars

AsmStart ==
    /\ phase = "start"
    /\ hasError = FALSE
    /\ asmMemory = EmptyArr
    /\ labels = EmptyMap
    /\ toFix = <<>>
    /\ addrToCode = {}
    /\ addrToLineNum = EmptyMap
    /\ startOffset = 0
    /\ lineNum = 0
    /\ asmPc = 0
    /\ atEnd = FALSE
    /\ fixIdx = 1
    /\ printed = <<>>
    /\ returned = "none"
    /\ objImage = EmptyArr
    /\ lastRead = 0

SimIdle ==
    /\ memory = EmptyMap
    /\ pc = 0
    /\ userMode = TRUE
    /\ priorityLevel = 0
    /\ flagNegative = FALSE
    /\ flagZero = FALSE
    /\ flagPositive = FALSE
    /\ interruptSignal = FALSE
    /\ interruptPriority = 0
    /\ interruptVector = 0
    /\ registers = [r \in 0 .. 7 |-> 0]
    /\ savedUSP = 0
    /\ savedSSP = 0
    /\ breakPoints = {}
    /\ objFile = EmptyArr
    /\ running = FALSE
    /\ cycles = 0
    /\ lastCycle = "none"
    /\ stepping = "none"
    /\ currDepth = 0
    /\ depth = 0
    /\ lastOp = "none"

AsmNext == ScanOrig \/ PassOneLine \/ PassOneExit \/ FixupEntry \/ WordCheck

\* assemble on the general inputs
AsmInit == srcLines \in Sources(MaxBody) /\ AsmStart /\ SimIdle

SpecAsm == AsmInit /\ [][AsmNext]_vars

\* assemble on the label-distance inputs
FixInit == srcLines \in FixSources(MaxFixBody) /\ AsmStart /\ SimIdle

SpecFix == FixInit /\ [][AsmNext]_vars

\* ---------------------------------------------------------------- Simulator
KBSR == 65024
KBDR == 65026
DSR == 65028
DDR == 65030
MCR == 65534

\* this.memory[a]
MemRead(mem, a) == IF a \in DOMAIN mem THEN mem[a] ELSE 0

\* this.memory[a] = v with the index taken modulo 2^16
MemWriteWraps(mem, a, v) ==
    [x \in {y \in (DOMAIN mem) \cup {a % WordMod} :
                y # a % WordMod \/ v % WordMod # 0} |->
        IF x = a % WordMod THEN v % WordMod ELSE mem[x]]

\* this.memory[a] = v on the Uint16Array: v is taken modulo 2^16 and an
\* index outside 0 .. 0xFFFF stores nothing
MemWrite(mem, a, v) ==
    IF a < 0 \/ a >= WordMod THEN mem
    ELSE [x \in {y \in (DOMAIN mem) \cup {a} : y # a \/ v % WordMod # 0} |->
            IF x = a THEN v % WordMod ELSE mem[x]]

RECURSIVE loadWordsFromOrigin(_, _, _, _)
\* lines 405-409 with the copy starting at the origin word, objFile[0]
loadWordsFromOrigin(mem, img, i, loc) ==
    IF i - 1 >= img.len THEN mem
    ELSE loadWordsFromOrigin(MemWrite(mem, loc, At(img, i - 1)), img, i + 1, loc + 1)

RECURSIVE loadWords(_, _, _, _)
\* lines 405-409: memory[loc++] = objFile[i] for i from `i` on
loadWords(mem, img, i, loc) ==
    IF i >= img.len THEN mem
    ELSE loadWords(MemWrite(mem, loc, At(img, i)), img, i + 1, loc + 1)

\* lines 766-769
enableClock(mem) == MemWrite(mem, MCR, 32768)

\* lines 774-777
isClockEnabled(mem) == BitAnd(MemRead(mem, MCR), 32768) # 0

\* lines 785-859: no exception check, the fetch with its PC increment, a
\* dispatch on the opcode to handlers that are all empty, no interrupt check;
\* the cycle returns false
instructionCycle(mem, p) ==
    LET instruction == MemRead(mem, p)
        opcode == BitAnd(instruction, 61440) \div 4096
    IN  [pc |-> (p + 1) % WordMod, ret |-> "false"]

\* the fields one instruction cycle leaves alone
CycleFrame ==
    UNCHANGED <<userMode, priorityLevel, flagNegative, flagZero, flagPositive,
                interruptSignal, interruptPriority, interruptVector,
                registers, savedUSP, savedSSP, breakPoints, objFile>>

\* one instruction cycle on memory `mem`
Cycle(mem) ==
    /\ memory' = mem
    /\ pc' = instructionCycle(mem, pc).pc
    /\ lastCycle' = instructionCycle(mem, pc).ret
    /\ cycles' = cycles + 1
    /\ CycleFrame

\* lines 740-752
restorePSR ==
    /\ userMode' = TRUE
    /\ priorityLevel' = 0
    /\ flagNegative' = FALSE
    /\ flagZero' = FALSE
    /\ flagPositive' = FALSE
    /\ interruptSignal' = FALSE
    /\ interruptPriority' = 0
    /\ interruptVector' = 0
    /\ savedSSP' = 12288
    /\ savedUSP' = 0

\* lines 403-413
reloadProgram ==
    /\ ~running /\ stepping = "none"
    /\ memory' = loadWords(memory, objFile, 1, At(objFile, 0))
    /\ pc' = At(objFile, 0)
    /\ restorePSR
    /\ UNCHANGED <<registers, breakPoints, objFile, running, cycles, lastCycle>>
    /\ UNCHANGED <<stepping, currDepth, depth>>
    /\ lastOp' = "reloadProgram"
    /\ UNCHANGED asmVars

\* lines 419-422 with the restorePSR call of reloadProgram added
restartProgramRestoresPSR ==
    /\ ~running /\ stepping = "none"
    /\ pc' = At(objFile, 0)
    /\ restorePSR
    /\ UNCHANGED <<memory, registers, breakPoints, objFile, running, cycles,
                   lastCycle>>
    /\ UNCHANGED <<stepping, currDepth, depth>>
    /\ lastOp' = "restartProgram"
    /\ UNCHANGED asmVars

\* lines 419-422
restartProgram ==
    /\ ~running /\ stepping = "none"
    /\ pc' = At(objFile, 0)
    /\ UNCHANGED <<memory, userMode, priorityLevel, flagNegative, flagZero,
                   flagPositive, interruptSignal, interruptPriority,
                   interruptVector, registers, savedUSP, savedSSP, breakPoints,
                   objFile, running, cycles, lastCycle>>
    /\ UNCHANGED <<stepping, currDepth, depth>>
    /\ lastOp' = "restartProgram"
    /\ UNCHANGED asmVars

\* line 458 with the clock test dropped
runContinuesIgnoringClock(mem, p) == p \notin breakPoints

\* line 458 with the breakpoint test dropped
runContinuesIgnoringBreakpoints(mem, p) == isClockEnabled(mem)

\* line 458: the condition of run's loop
runContinues(mem, p) == isClockEnabled(mem) /\ p \notin breakPoints

\* lines 455-456 with the breakpoint test of line 458 ahead of the first
\* cycle
RunStartTestsBreakpoints ==
    /\ ~running /\ stepping = "none"
    /\ cycles < MaxCycles
    /\ IF pc \in breakPoints
       THEN /\ memory' = enableClock(memory)
            /\ UNCHANGED <<pc, lastCycle, cycles>>
            /\ CycleFrame
       ELSE Cycle(enableClock(memory))
    /\ running' = TRUE
    /\ UNCHANGED <<stepping, currDepth, depth>>
    /\ lastOp' = "run"
    /\ UNCHANGED asmVars

\* lines 455-456: run() up to its first cycle boundary
RunStart ==
    /\ ~running /\ stepping = "none"
    /\ cycles < MaxCycles
    /\ Cycle(enableClock(memory))
    /\ running' = TRUE
    /\ UNCHANGED <<stepping, currDepth, depth>>
    /\ lastOp' = "run"
    /\ UNCHANGED asmVars

\* lines 458-461: one iteration of run's loop
RunCycle ==
    /\ running
    /\ runContinues(memory, pc)
    /\ cycles < MaxCycles
    /\ Cycle(memory)
    /\ UNCHANGED running
    /\ UNCHANGED <<stepping, currDepth, depth>>
    /\ lastOp' = "run"
    /\ UNCHANGED asmVars

\* lines 458-462: the loop condition fails and run returns
RunReturn ==
    /\ running
    /\ ~runContinues(memory, pc)
    /\ running' = FALSE
    /\ UNCHANGED <<memory, pc, userMode, priorityLevel, flagNegative, flagZero,
                   flagPositive, interruptSignal, interruptPriority,
                   interruptVector, registers, savedUSP, savedSSP, breakPoints,
                   objFile, cycles, lastCycle>>
    /\ UNCHANGED <<stepping, currDepth, depth>>
    /\ lastOp' = "run"
    /\ UNCHANGED asmVars

\* lines 467-471
stepIn ==
    /\ ~running /\ stepping = "none"
    /\ cycles < MaxCycles
    /\ Cycle(enableClock(memory))
    /\ UNCHANGED running
    /\ UNCHANGED <<stepping, currDepth, depth>>
    /\ lastOp' = "stepIn"
    /\ UNCHANGED asmVars

\* lines 553-562
keyboardInterrupt(asciiCode) ==
    /\ memory' = MemWrite(memory, KBDR, asciiCode)
    /\ IF priorityLevel < 4 /\ BitAnd(MemRead(memory, KBSR), 32768) # 0
       THEN /\ interruptSignal' = TRUE
            /\ interruptPriority' = 4
            /\ interruptVector' = 128
       ELSE UNCHANGED <<interruptSignal, interruptPriority, interruptVector>>
    /\ UNCHANGED <<pc, userMode, priorityLevel, flagNegative, flagZero,
                   flagPositive, registers, savedUSP, savedSSP, breakPoints,
                   objFile, running, cycles, lastCycle>>
    /\ UNCHANGED <<stepping, currDepth, depth>>
    /\ lastOp' = "keyboardInterrupt"
    /\ UNCHANGED asmVars

\* lines 568-571
setBreakpoint(address) ==
    /\ breakPoints' = breakPoints \cup {address}
    /\ UNCHANGED <<memory, pc, userMode, priorityLevel, flagNegative, flagZero,
                   flagPositive, interruptSignal, interruptPriority,
                   interruptVector, registers, savedUSP, savedSSP, objFile,
                   running, cycles, lastCycle>>
    /\ UNCHANGED <<stepping, currDepth, depth>>
    /\ lastOp' = "set"
    /\ UNCHANGED asmVars

\* lines 577-580
clearBreakpoint(address) ==
    /\ breakPoints' = breakPoints \ {address}
    /\ UNCHANGED <<memory, pc, userMode, priorityLevel, flagNegative, flagZero,
                   flagPositive, interruptSignal, interruptPriority,
                   interruptVector, registers, savedUSP, savedSSP, objFile,
                   running, cycles, lastCycle>>
    /\ UNCHANGED <<stepping, currDepth, depth>>
    /\ lastOp' = "set"
    /\ UNCHANGED asmVars

\* lines 631-634
setMemory(address, value) ==
    /\ memory' = MemWrite(memory, address, value)
    /\ UNCHANGED <<pc, userMode, priorityLevel, flagNegative, flagZero,
                   flagPositive, interruptSignal, interruptPriority,
                   interruptVector, registers, savedUSP, savedSSP, breakPoints,
                   objFile, running, cycles, lastCycle>>
    /\ UNCHANGED <<stepping, currDepth, depth>>
    /\ lastOp' = "set"
    /\ UNCHANGED asmVars

\* lines 651-654
setRegister(registerNumber, value) ==
    /\ registers' = [registers EXCEPT ![registerNumber] = value % WordMod]
    /\ UNCHANGED <<memory, pc, userMode, priorityLevel, flagNegative, flagZero,
                   flagPositive, interruptSignal, interruptPriority,
                   interruptVector, savedUSP, savedSSP, breakPoints, objFile,
                   running, cycles, lastCycle>>
    /\ UNCHANGED <<stepping, currDepth, depth>>
    /\ lastOp' = "set"
    /\ UNCHANGED asmVars

\* lines 678-686 with the priority shifted by 7 instead of 8
getPSRShiftsSeven ==
    (IF userMode THEN 32768 ELSE 0) + priorityLevel * 128
    + (IF flagNegative THEN 4 ELSE 0) + (IF flagZero THEN 2 ELSE 0)
    + (IF flagPositive THEN 1 ELSE 0)

\* lines 678-686
getPSR ==
    (IF userMode THEN 32768 ELSE 0) + priorityLevel * 256
    + (IF flagNegative THEN 4 ELSE 0) + (IF flagZero THEN 2 ELSE 0)
    + (IF flagPositive THEN 1 ELSE 0)

\* lines 692-699
setPSR(value) ==
    /\ flagPositive' = (BitAnd(value, 1) # 0)
    /\ flagZero' = (BitAnd(value, 2) # 0)
    /\ flagNegative' = (BitAnd(value, 4) # 0)
    /\ priorityLevel' = BitAnd(value \div 256, 7)
    /\ userMode' = (BitAnd(value, 32768) # 0)
    /\ UNCHANGED <<memory, pc, interruptSignal, interruptPriority,
                   interruptVector, registers, savedUSP, savedSSP, breakPoints,
                   objFile, running, cycles, lastCycle>>
    /\ UNCHANGED <<stepping, currDepth, depth>>
    /\ lastOp' = "set"
    /\ UNCHANGED asmVars

\* ------------------------- Opcodes (opcodes.ts), after the specification
\* bits 15..12 of a word
opcodeOf(w) == BitAnd(w, 61440) \div 4096

\* RTI is opcode 1000; RET is JMP (1100) with BaseR = 7
isRETorRTI(w) == opcodeOf(w) = 8 \/ (opcodeOf(w) = 12 /\ BitAnd(w, 448) = 448)

isJSRorJSRR(w) == opcodeOf(w) = 4

isTRAP(w) == opcodeOf(w) = 15

\* ------------------------------------------------- stepOut and stepOver
\* no debugger operation is in progress
idle == ~running /\ stepping = "none"

\* lines 484, 488, 501, 505: what stepOut hands to Opcodes, this.pc[0]
stepOutClassified(mem, p) == p

\* line 529: what stepOver hands to Opcodes, this.memory[this.pc[0]]
stepOverClassified(mem, p) == MemRead(mem, p)

\* lines 484-491 and 501-508: the change of currDepth for the value classified
depthChange(w) ==
    IF isRETorRTI(w) THEN 0 - 1
    ELSE IF isJSRorJSRR(w) \/ isTRAP(w) THEN 1
    ELSE 0

\* line 529 with every word taken for a call
stepOverDepthAlwaysCall(w) == 1

\* lines 529-532: the depth stepOver starts with
stepOverDepth(w) == IF isJSRorJSRR(w) \/ isTRAP(w) THEN 1 ELSE 0

\* lines 492-496, 511-515, 535-538: ++depth when the cycle returned true
intOrEx(ret) == IF ret = "true" THEN 1 ELSE 0

\* line 499: the condition of stepOut's loop
stepOutContinues(mem, p, d) == d > 0 /\ isClockEnabled(mem) /\ p \notin breakPoints

\* line 541: the condition of stepOver's loop
stepOverContinues(mem, p, d) == d > 0 /\ isClockEnabled(mem) /\ p \notin breakPoints

\* lines 480-496: stepOut up to the first test of its loop
stepOutEntry ==
    /\ cycles < MaxCycles
    /\ currDepth' = 1 + depthChange(stepOutClassified(memory, pc))
                      + intOrEx(instructionCycle(enableClock(memory), pc).ret)
    /\ Cycle(enableClock(memory))

\* lines 499-516: one iteration of stepOut's loop
stepOutIteration ==
    /\ stepOutContinues(memory, pc, currDepth)
    /\ cycles < MaxCycles
    /\ currDepth' = currDepth + depthChange(stepOutClassified(memory, pc))
                      + intOrEx(instructionCycle(memory, pc).ret)
    /\ Cycle(memory)

\* the fields no return from a loop touches
ReturnFrame ==
    UNCHANGED <<memory, pc, userMode, priorityLevel, flagNegative, flagZero,
                flagPositive, interruptSignal, interruptPriority,
                interruptVector, registers, savedUSP, savedSSP, breakPoints,
                objFile, running, cycles, lastCycle>>

\* stepOut(), called by the user: lines 480-496
StepOutStart ==
    /\ idle
    /\ stepOutEntry
    /\ stepping' = "stepOut"
    /\ lastOp' = "stepOut"
    /\ UNCHANGED <<running, depth>>
    /\ UNCHANGED asmVars

\* lines 499-516, in the stepOut of the user or in the one stepOver called
StepOutCycle ==
    /\ stepping \in {"stepOut", "stepOverOut"}
    /\ stepOutIteration
    /\ UNCHANGED <<running, stepping, depth, lastOp>>
    /\ UNCHANGED asmVars

\* lines 499, 517: the loop condition fails and the user's stepOut returns
StepOutReturn ==
    /\ stepping = "stepOut"
    /\ ~stepOutContinues(memory, pc, currDepth)
    /\ stepping' = "none"
    /\ currDepth' = 0
    /\ ReturnFrame
    /\ UNCHANGED <<depth, lastOp>>
    /\ UNCHANGED asmVars

\* lines 526-538: stepOver up to the first test of its loop
StepOverStart ==
    /\ idle
    /\ cycles < MaxCycles
    /\ depth' = stepOverDepth(stepOverClassified(memory, pc))
                  + intOrEx(instructionCycle(enableClock(memory), pc).ret)
    /\ Cycle(enableClock(memory))
    /\ stepping' = "stepOver"
    /\ lastOp' = "stepOver"
    /\ UNCHANGED <<running, currDepth>>
    /\ UNCHANGED asmVars

\* lines 541-543: the loop of stepOver calls stepOut, which runs to the first
\* test of its own loop
StepOverCallsStepOut ==
    /\ stepping = "stepOver"
    /\ stepOverContinues(memory, pc, depth)
    /\ stepOutEntry
    /\ stepping' = "stepOverOut"
    /\ UNCHANGED <<running, depth, lastOp>>
    /\ UNCHANGED asmVars

\* lines 499, 517, 544: the stepOut that stepOver called returns; --depth
StepOverOutReturn ==
    /\ stepping = "stepOverOut"
    /\ ~stepOutContinues(memory, pc, currDepth)
    /\ stepping' = "stepOver"
    /\ currDepth' = 0
    /\ depth' = depth - 1
    /\ ReturnFrame
    /\ UNCHANGED lastOp
    /\ UNCHANGED asmVars

\* lines 541, 546: the loop condition fails and stepOver returns
StepOverReturn ==
    /\ stepping = "stepOver"
    /\ ~stepOverContinues(memory, pc, depth)
    /\ stepping' = "none"
    /\ depth' = 0
    /\ ReturnFrame
    /\ UNCHANGED <<currDepth, lastOp>>
    /\ UNCHANGED asmVars

\* ------------------------------------------------------- simulator inputs
\* object images: x3000 with ADD R0,R0,#5, HALT and the reserved opcode;
\* xFFFF with the first two of these words, the second of which has no
\* address to go to
Images ==
    {[len |-> 4, w |-> (0 :> 12288) @@ (1 :> 4133) @@ (2 :> 61477) @@ (3 :> 53248)],
     [len |-> 3, w |-> (0 :> 65535) @@ (1 :> 4133) @@ (2 :> 61477)]}

\* what the UI writes to memory: KBSR clear, with bit 14 alone and with bit
\* 15 alone, MCR with the clock bit clear, an RTI over the second word of the
\* x3000 image
UiWrites ==
    {<<KBSR, 0>>, <<KBSR, 16384>>, <<KBSR, 32768>>,
     <<MCR, 0>>, <<12289, 32768>>}

Keys == {65}

BreakAddrs == {12289}

\* supervisor at priority 4 with Z set
PsrValues == {1026}

\* the state a constructed Simulator is in (lines 391-397)
SimInit ==
    /\ objFile \in Images
    /\ memory = loadWords(EmptyMap, objFile, 1, At(objFile, 0))
    /\ pc = At(objFile, 0)
    /\ userMode = TRUE
    /\ priorityLevel = 0
    /\ flagNegative = FALSE
    /\ flagZero = FALSE
    /\ flagPositive = FALSE
    /\ interruptSignal = FALSE
    /\ interruptPriority = 0
    /\ interruptVector = 0
    /\ registers = [r \in 0 .. 7 |-> 0]
    /\ savedSSP = 12288
    /\ savedUSP = 0
    /\ breakPoints = {}
    /\ running = FALSE
    /\ cycles = 0
    /\ lastCycle = "none"
    /\ stepping = "none"
    /\ currDepth = 0
    /\ depth = 0
    /\ lastOp = "constructor"

\* the assembler, at rest
AsmIdle == srcLines = <<Blank>> /\ AsmStart

\* The debugger operations run one at a time.  The inspection API and the
\* keyboard deliver their events between instruction cycles, also between
\* two cycles of a run in progress (section 5).
SimNext ==
    \/ reloadProgram
    \/ restartProgram
    \/ RunStart
    \/ RunCycle
    \/ RunReturn
    \/ stepIn
    \/ StepOutStart
    \/ StepOutCycle
    \/ StepOutReturn
    \/ StepOverStart
    \/ StepOverCallsStepOut
    \/ StepOverOutReturn
    \/ StepOverReturn
    \/ \E k \in Keys : keyboardInterrupt(k)
    \/ \E a \in BreakAddrs : setBreakpoint(a)
    \/ \E a \in BreakAddrs : clearBreakpoint(a)
    \/ \E u \in UiWrites : setMemory(u[1], u[2])
    \/ \E v \in {0, 5} : setRegister(0, v)
    \/ \E v \in PsrValues : setPSR(v)

\* a constructed Simulator
Init == AsmIdle /\ SimInit

Spec == Init /\ [][SimNext]_vars

\* ------------------------------------------- the PSR through its accessors
\* the bits of a word that are none of the PSR's: 14..11 and 7..3
PsrOtherBits == {0, 30968}

\* 16-bit words: every setting of the mode bit, the priority and the three
\* flags, with all the other bits clear and with all of them set
PsrWords ==
    {m * 32768 + pl * 256 + f + o :
        m \in {0, 1}, pl \in 0 .. 7, f \in 0 .. 7, o \in PsrOtherBits}

\* sim.setPSR(sim.getPSR())
PsrRoundTrip == setPSR(getPSR)

PsrNext ==
    \/ \E v \in PsrWords : setPSR(v)
    \/ PsrRoundTrip

\* a Simulator constructed on the x3000 image
PsrInit == Init /\ At(objFile, 0) = 12288

\* the PSR accessors only
SpecPsr == PsrInit /\ [][PsrNext]_vars

\* ------------------------------------------------ assembler: the claims
Said(kind) == \E k \in DOMAIN printed : printed[k][2] = kind

AllBlank == \A i \in DOMAIN srcLines : srcLines[i] = Blank

\* 0-based index of the first non-blank line (when there is one)
FirstLineIdx == CHOOSE j \in 0 .. Len(srcLines) - 1 :
                    /\ srcLines[j + 1] # Blank
                    /\ \A i \in 1 .. j : srcLines[i] = Blank

\* the tokens of a line that follow its label
AfterLabel(line) ==
    IF line # Blank /\ isLabelToken(line[1]) THEN Tail(line) ELSE line

\* the operand-count table of section 4.1.1
WrongOperandCount(tokens) ==
    LET n == Len(tokens) - 1
        m == tokens[1]
    IN
    CASE m \in {"ret", "rti", "getc", "halt", "in", "out", "puts", "putsp", ".end"}
            -> n # 0
      [] m \in BrOps \cup {"jmp", "jsr", "jsrr", "trap", ".orig", ".fill", ".stringz"}
            -> n # 1
      [] m \in {"ld", "ldi", "lea", "not", "st", "sti"} -> n # 2
      [] m \in {"add", "and", "ldr", "str"} -> n # 3
      [] m = ".blkw" -> n \notin {1, 2}
      [] OTHER -> FALSE

\* line i (0-based) is an instruction or directive with a bad operand count
BadCountLine(i) ==
    /\ srcLines[i + 1] # Blank
    /\ AfterLabel(srcLines[i + 1]) # <<>>
    /\ WrongOperandCount(AfterLabel(srcLines[i + 1]))

\* C1: whenever assemble has emitted a diagnostic, at whatever stage, it
\* returns null and never an object image.
C1_AnyDiagnosticReturnsNull ==
    (phase = "done" /\ printed # <<>>) => returned = "null"

\* the fixups are all resolved
PassTwoOver == phase = "done" \/ (phase = "passTwo" /\ fixIdx > Len(toFix))

\* C2: after pass two, the word at the offset of every `.fill L` with L
\* defined is labels[L] + origin, the absolute address of L.
C2_FillHoldsAbsoluteAddress ==
    PassTwoOver =>
        \A k \in DOMAIN toFix :
            (toFix[k][1][1] = ".fill" /\ toFix[k][1][2] \in DOMAIN labels)
                => At(asmMemory, toFix[k][2]) = labels[toFix[k][1][2]] + startOffset

\* C3: on a source with no non-blank line assemble emits the empty-source
\* diagnostic and returns null, and the scan for the first non-blank line
\* reads no line past the last one.
C3_EmptySourceReturnsNull ==
    (phase # "start" /\ AllBlank) =>
        /\ returned = "null"
        /\ Said("INFILE")
        /\ lastRead < Len(srcLines)

\* C4: when the first non-blank line is not a .ORIG directive, assemble
\* emits the first-line-must-be-.ORIG diagnostic and returns null, having
\* scanned no further line, defined no label and emitted no word.
C4_FirstLineMustBeOrig ==
    (phase # "start" /\ ~AllBlank /\ srcLines[FirstLineIdx + 1][1] # ".orig") =>
        /\ returned = "null"
        /\ printed = <<<<FirstLineIdx, "FIRSTLINE">>>>
        /\ lastRead = FirstLineIdx
        /\ labels = EmptyMap
        /\ asmMemory = EmptyArr

\* the pass-one step over a line with a bad operand count
C5_BadOperandCountStep ==
    (/\ phase = "passOne" /\ phase' = "passOne"
     /\ lineNum' = lineNum + 1
     /\ BadCountLine(lineNum + 1))
    => /\ printed' = Append(printed, <<lineNum + 1, "operandCount">>)
       /\ asmMemory' = asmMemory
       /\ asmPc' = asmPc
       /\ toFix' = toFix

C5_BadOperandCountReturnsNull ==
    (phase = "done" /\ \E i \in (FirstLineIdx + 1) .. lastRead : BadCountLine(i))
        => returned = "null"

\* C5: a pass-one line with a bad operand count produces a diagnostic, emits
\* no word and leaves pc where it was; and an assembly that met such a line
\* returns null.
C5_BadOperandCount ==
    [][C5_BadOperandCountStep]_vars /\ [](C5_BadOperandCountReturnsNull)

\* C5's case: pass one has just diagnosed a bad operand count below a line
\* that emitted a word
C5_Witness ==
    /\ phase = "passOne"
    /\ asmPc > 0
    /\ printed # <<>>
    /\ printed[Len(printed)] = <<lineNum, "operandCount">>

\* the PC-offset field widths: 9 for LD/LDI/ST/STI/LEA/BR, 11 for JSR
FieldWidth(op) == IF op = "jsr" THEN 11 ELSE 9

IsInstrFixup(k) == toFix[k][1][1] \notin {".fill", ".blkw"}

FixLabel(k) == toFix[k][1][Len(toFix[k][1])]

Distance(k) == labels[FixLabel(k)] - (toFix[k][2] + 1)

Abs(x) == IF x < 0 THEN 0 - x ELSE x

FixupFits(k) ==
    /\ FixLabel(k) \in DOMAIN labels
    /\ Abs(Distance(k)) < 2 ^ (FieldWidth(toFix[k][1][1]) - 1)

\* C6: in an assembly that succeeds, every instruction fixup's label is
\* defined at a distance d with |d| < 2^(w-1); an instruction fixup that does
\* not fit, or whose label is undefined, makes assemble return null.
C6_LabelOffsetFits ==
    phase = "done" =>
        /\ returned = "image" =>
              \A k \in DOMAIN toFix : IsInstrFixup(k) => FixupFits(k)
        /\ (\E k \in DOMAIN toFix : IsInstrFixup(k) /\ ~FixupFits(k))
              => returned = "null"

\* C6's case: a successful assembly whose BR sits 255 words from its label,
\* the greatest distance a 9-bit field takes
C6_Witness ==
    /\ phase = "done"
    /\ returned = "image"
    /\ \E k \in DOMAIN toFix :
          /\ toFix[k][1][1] = "br"
          /\ FixLabel(k) \in DOMAIN labels
          /\ Abs(Distance(k)) = 255

\* C7: the returned image is one word longer than memory, starts with the
\* .ORIG address and holds at i + 1 the word emitted at offset i.
C7_ImageLayout ==
    returned = "image" =>
        /\ objImage.len = asmMemory.len + 1
        /\ At(objImage, 0) = startOffset
        /\ \A i \in 0 .. asmMemory.len - 1 : At(objImage, i + 1) = At(asmMemory, i)

\* C7's case: a successful assembly of at least three words, the first and
\* the last of them non-zero
C7_Witness ==
    /\ returned = "image"
    /\ asmMemory.len >= 3
    /\ At(asmMemory, 0) # 0
    /\ At(asmMemory, asmMemory.len - 1) # 0
    /\ startOffset # 0

\* ------------------------------------------------ simulator: the claims
KeyboardStep == \E k \in Keys : keyboardInterrupt(k)

CycleStep == cycles' = cycles + 1

\* a keyboardInterrupt call on a clear latch
C8_KeyboardInterruptStep ==
    (KeyboardStep /\ ~interruptSignal) =>
        IF BitAnd(MemRead(memory, KBSR), 16384) # 0 /\ priorityLevel < 4
        THEN interruptSignal' /\ interruptPriority' = 4 /\ interruptVector' = 128
        ELSE ~interruptSignal'

\* C8: keyboardInterrupt asserts the interrupt latch (priority 4, vector
\* 0x80) exactly when KBSR bit 14, the interrupt-enable bit, is 1 and the PSR
\* priority is below 4; otherwise the latch stays clear.
C8_KeyboardInterruptDiscipline == [][C8_KeyboardInterruptStep]_vars

\* an instruction cycle that starts with an eligible interrupt latched
C9_InterruptTakenStep ==
    (CycleStep /\ interruptSignal /\ interruptPriority > priorityLevel) =>
        /\ ~userMode'
        /\ priorityLevel' = interruptPriority
        /\ pc' = MemRead(memory', 256 + interruptVector)
        /\ ~interruptSignal'
        /\ lastCycle' = "true"

\* C9: a cycle that runs with the latch asserted above the PSR priority ends
\* in interrupt service: supervisor mode at the latched priority, PC from
\* memory[0x0100 + vector], the latch clear, and the cycle reports it.
C9_InterruptTakenAtBoundary == [][C9_InterruptTakenStep]_vars

\* a step from a cycle boundary of a run with the clock-enable bit clear
C10_ClockStep ==
    (running /\ BitAnd(MemRead(memory, MCR), 32768) = 0) =>
        /\ cycles' = cycles
        /\ pc' = pc

\* at such a boundary run's loop is left, not entered
C10_RunReturns ==
    (running /\ BitAnd(MemRead(memory, MCR), 32768) = 0) =>
        /\ ENABLED RunReturn
        /\ ~ENABLED RunCycle

\* C10: from a cycle boundary of a run in progress at which MCR bit 15 is
\* clear, no further instruction cycle is executed: the run returns.
C10_ClockEnableHonoured == [][C10_ClockStep]_vars /\ [](C10_RunReturns)

\* C10's case: a run that has executed a cycle stands at a cycle boundary
\* with the clock-enable bit clear
C10_Witness ==
    /\ running
    /\ cycles >= 1
    /\ cycles < MaxCycles
    /\ pc \notin breakPoints
    /\ BitAnd(MemRead(memory, MCR), 32768) = 0

\* MCR bit 15 is clear or PC is a breakpoint
RunStops(mem, p) == BitAnd(MemRead(mem, MCR), 32768) = 0 \/ p \in breakPoints

\* a step of run: its start, its return, and any step from one of its cycle
\* boundaries at which the stop condition holds
C11_RunStep ==
    /\ (~running /\ running') => BitAnd(MemRead(memory', MCR), 32768) # 0
    /\ (running /\ ~running') => (RunStops(memory', pc') /\ cycles' = cycles)
    /\ (running /\ RunStops(memory, pc)) => cycles' = cycles

\* C11: run sets MCR bit 15 before its first cycle; whenever run returns, MCR
\* bit 15 is 0 or PC is in the breakpoint set; and from a cycle boundary of
\* the run at which one of the two holds, run executes no further cycle.
C11_RunStopCondition == [][C11_RunStep]_vars

\* C11's case: run has returned at a breakpoint with the clock still enabled,
\* two cycles or more into the program
C11_Witness ==
    /\ ~running
    /\ lastOp = "run"
    /\ cycles >= 2
    /\ pc \in breakPoints
    /\ BitAnd(MemRead(memory, MCR), 32768) # 0

PsrFields == <<userMode, priorityLevel, flagNegative, flagZero, flagPositive>>

\* a step of the PSR accessors
C12_PsrStep ==
    /\ PsrRoundTrip => UNCHANGED PsrFields
    /\ \A v \in PsrWords : setPSR(v) => getPSR' = BitAnd(v, 34567)

\* C12: setPSR(getPSR()) leaves mode, priority and the three flags as they
\* were, and getPSR() after setPSR(v) is v AND 0x8707 for a 16-bit v.
C12_PsrRoundTrip == [][C12_PsrStep]_vars

\* C12's case: setPSR has put the PSR in supervisor mode at priority 5 with N
\* and P set, which no other operation does
C12_Witness ==
    /\ lastOp = "set"
    /\ ~userMode
    /\ priorityLevel = 5
    /\ flagNegative /\ ~flagZero /\ flagPositive

\* C13: between instruction cycles exactly one of the condition flags N, Z, P
\* is set.
C13_ExactlyOneFlag ==
    Cardinality({f \in {"N", "Z", "P"} :
                    \/ (f = "N" /\ flagNegative)
                    \/ (f = "Z" /\ flagZero)
                    \/ (f = "P" /\ flagPositive)}) = 1

\* The constructed simulator holds its image and a reload leaves it as it
\* is, so the reloads of every two states that hold one image agree exactly
\* when every reload ends with the memory, registers, PC and PSR of the
\* constructed simulator.
C14_ReloadStep ==
    reloadProgram =>
        /\ memory' = loadWords(EmptyMap, objFile, 1, At(objFile, 0))
        /\ registers' = [r \in 0 .. 7 |-> 0]
        /\ pc' = At(objFile, 0)
        /\ getPSR' = 32768

\* C14: reloadProgram, called in any two reachable states that hold the same
\* object image, ends in states that agree on all of memory, on R0..R7, on PC
\* and on the PSR.
C14_ReloadDeterminism == [][C14_ReloadStep]_vars

\* the image ends at or below the last address
ImageFits == At(objFile, 0) + (objFile.len - 1) <= WordMod

\* C15: right after reloadProgram on an image that fits below 0x10000, the
\* image's words are in memory from the origin on, PC is the origin, the PSR
\* is user mode at priority 0 with N, Z, P clear, savedSSP is 0x3000,
\* savedUSP is 0 and the interrupt latch is clear.
C15_ReloadEffects ==
    (lastOp = "reloadProgram" /\ ImageFits) =>
        /\ \A i \in 1 .. objFile.len - 1 :
              MemRead(memory, At(objFile, 0) + i - 1) = At(objFile, i)
        /\ pc = At(objFile, 0)
        /\ userMode /\ priorityLevel = 0
        /\ ~flagNegative /\ ~flagZero /\ ~flagPositive
        /\ savedSSP = 12288
        /\ savedUSP = 0
        /\ ~interruptSignal

\* C15's case: a reload of a fitting image after the program has run, in a
\* simulator whose breakpoints, keyboard data and clock bit it leaves alone
C15_Witness ==
    /\ lastOp = "reloadProgram"
    /\ ImageFits
    /\ cycles >= 2
    /\ breakPoints # {}
    /\ MemRead(memory, KBDR) = 65
    /\ BitAnd(MemRead(memory, MCR), 32768) # 0

\* a restartProgram step
C16_RestartStep ==
    restartProgram =>
        /\ pc' = At(objFile, 0)
        /\ UNCHANGED <<memory, registers, userMode, priorityLevel,
                       flagNegative, flagZero, flagPositive, savedUSP,
                       savedSSP, interruptSignal, interruptPriority,
                       interruptVector, breakPoints>>

RaisesException(mem, p) ==
    \/ opcodeOf(MemRead(mem, p)) = 13
    \/ (opcodeOf(MemRead(mem, p)) = 8 /\ userMode)

\* an instruction cycle that starts at such a word
C17_ExceptionStep ==
    (CycleStep /\ RaisesException(memory, pc)) =>
        /\ ~userMode'
        /\ \E vector \in 0 .. 255 : pc' = MemRead(memory', 256 + vector)
        /\ lastCycle' = "true"

\* C17: a cycle that starts with PC at a word of opcode 1101, or at an RTI in
\* user mode, ends in supervisor mode with PC taken from the vector table at
\* 0x0100, and reports that it took a trap.
C17_ExceptionTaken == [][C17_ExceptionStep]_vars

IsCallWord(w) == opcodeOf(w) = 4 \/ opcodeOf(w) = 15

\* stepOver on a word that is no call, and any step from stepOver's loop test
\* at depth 0
C18_StepOverStep ==
    /\ (StepOverStart /\ ~IsCallWord(MemRead(memory, pc))) =>
          (Cycle(enableClock(memory)) /\ depth' = 0)
    /\ (stepping = "stepOver" /\ depth = 0) =>
          (cycles' = cycles /\ pc' = pc)

\* at depth 0 stepOver's loop is left, not entered
C18_StepOverReturns ==
    (stepping = "stepOver" /\ depth = 0) =>
        /\ ENABLED StepOverReturn
        /\ ~ENABLED StepOverCallsStepOut

\* C18: when the word at PC is no JSR, JSRR or TRAP, stepOver sets the clock
\* bit and executes the one instruction cycle stepIn executes, then returns
\* without another cycle, whatever the breakpoint set holds.
C18_StepOverIsStepIn == [][C18_StepOverStep]_vars /\ [](C18_StepOverReturns)

\* C18's case: stepOver has returned after the only cycle so far, which
\* started at the ADD at the origin, with the breakpoint at the new PC set
C18_Witness ==
    /\ stepping = "none"
    /\ lastOp = "stepOver"
    /\ cycles = 1
    /\ ~IsCallWord(MemRead(memory, At(objFile, 0)))
    /\ pc = At(objFile, 0) + 1
    /\ pc \in breakPoints

\* a keyboardInterrupt call
C19_KeyboardStep ==
    \A k \in Keys :
        keyboardInterrupt(k) =>
            /\ MemRead(memory', KBDR) = k
            /\ BitAnd(MemRead(memory', KBSR), 32768) # 0

\* C19: keyboardInterrupt(asciiCode) leaves asciiCode in KBDR and bit 15 of
\* KBSR, the ready bit, set.
C19_KeyboardLatchesAndReady == [][C19_KeyboardStep]_vars

\* a depth-tracking decision of stepOut
StepOutDecision == StepOutStart \/ StepOverCallsStepOut \/ StepOutCycle

\* the depth before a decision: 1 on entry, currDepth in the loop
DepthBefore == IF StepOutCycle THEN currDepth ELSE 1

\* a depth-tracking decision of stepOut
C20_DepthStep ==
    StepOutDecision =>
        currDepth' = DepthBefore
                       + depthChange(stepOverClassified(memory, pc))
                       + intOrEx(lastCycle')

\* C20: every depth-tracking decision of stepOut classifies memory[PC], the
\* word stepOver classifies in the same state: depth + 1 for JSR, JSRR and
\* TRAP, depth - 1 for RET and RTI, and never the value of PC itself.
C20_StepOutClassifiesMemoryWord == [][C20_DepthStep]_vars

\* ------------------------------------- assembler: the claims, continued
IsBlkwFixup(k) == toFix[k][1][1] = ".blkw"

\* the N, the L and the loc of the .blkw fixup k
BlkwCount(k) == ImmLiteral[toFix[k][1][2]]

BlkwLabel(k) == toFix[k][1][3]

BlkwLoc(k) == toFix[k][2]

\* the offsets either of two arrays holds a word at
Offsets(a, b) == 0 .. ((IF a.len > b.len THEN a.len ELSE b.len) - 1)

\* the pass-two step over a .blkw fixup
C21_BlkwFixStep ==
    (phase = "passTwo" /\ fixIdx' = fixIdx + 1 /\ IsBlkwFixup(fixIdx)) =>
        LET range == BlkwLoc(fixIdx) .. (BlkwLoc(fixIdx) + BlkwCount(fixIdx) - 1) IN
        IF BlkwLabel(fixIdx) \in DOMAIN labels
        THEN /\ \A i \in range :
                   At(asmMemory', i) = labels[BlkwLabel(fixIdx)] + startOffset
             /\ \A i \in Offsets(asmMemory, asmMemory') \ range :
                   At(asmMemory', i) = At(asmMemory, i)
             /\ asmMemory'.len = asmMemory.len
             /\ printed' = printed
        ELSE /\ hasError'
             /\ printed' = Append(printed, <<lineNum', "badLabel">>)
             /\ asmMemory' = asmMemory

\* what pass two leaves of the .blkw fixups
C21_BlkwAfterPassTwo ==
    /\ PassTwoOver =>
          \A k \in DOMAIN toFix :
              (IsBlkwFixup(k) /\ BlkwLabel(k) \in DOMAIN labels) =>
                  \A i \in BlkwLoc(k) .. (BlkwLoc(k) + BlkwCount(k) - 1) :
                      At(asmMemory, i) = labels[BlkwLabel(k)] + startOffset
    /\ (phase = "done"
        /\ \E k \in DOMAIN toFix :
              IsBlkwFixup(k) /\ BlkwLabel(k) \notin DOMAIN labels)
          => (returned = "null" /\ Said("badLabel"))

\* C21: the fixup of a `.blkw N L` with L defined writes labels[L] + origin
\* to each of the N words at loc .. loc + N - 1 and to no other word, and the
\* words are still there after pass two; with L undefined it issues a
\* diagnostic and assemble returns null.
C21_BlkwFixup == [][C21_BlkwFixStep]_vars /\ [](C21_BlkwAfterPassTwo)

\* C21's case: a successful assembly at x3000 with a `.blkw 2 a` below the
\* line that defines a, both words holding the address of a
C21_Witness ==
    /\ returned = "image"
    /\ startOffset = 12288
    /\ \E k \in DOMAIN toFix :
          /\ IsBlkwFixup(k)
          /\ BlkwCount(k) = 2
          /\ BlkwLoc(k) > 0
          /\ BlkwLabel(k) \in DOMAIN labels
          /\ At(asmMemory, BlkwLoc(k) + 1) = labels[BlkwLabel(k)] + 12288

\* line i (0-based) of the lines pass one has read defines a label
DefinesLabel(i) == srcLines[i + 1] # Blank /\ isLabelToken(srcLines[i + 1][1])

\* the lines pass one has read
PassOneLines == (FirstLineIdx + 1) .. lastRead

\* C22: in a successful assembly no label name is defined on two lines, and
\* every label is bound to the offset its defining line was read at.
C22_LabelDefinedOnce ==
    returned = "image" =>
        \A i, j \in PassOneLines :
            (i # j /\ DefinesLabel(i) /\ DefinesLabel(j))
                => srcLines[i + 1][1] # srcLines[j + 1][1]

\* the recoverable diagnostic an instruction line raises in pass one, none
\* when it raises none or is a directive
FaultOf(tokens) ==
    IF tokens = <<>> \/ tokens[1] \in directives THEN "none"
    ELSE IF tokens[1] \notin opCodes THEN "unknownMnemonic"
    ELSE IF WrongOperandCount(tokens) THEN "operandCount"
    ELSE IF isNaN(encodeWord(tokens)) THEN "immediate"
    ELSE "none"

\* the line pass one reads next
NextLine == AfterLabel(srcLines[lineNum + 2])

\* pass one reads a line
PassOneStep == phase = "passOne" /\ phase' = "passOne" /\ lineNum' = lineNum + 1

\* the pass-one step over a faulty instruction line advances pc by one
C23_AdvanceStep ==
    (PassOneStep /\ FaultOf(NextLine) # "none") => asmPc' = asmPc + 1

\* C23: every instruction line that raises a recoverable diagnostic in pass
\* one (unknown mnemonic, bad operand count, immediate out of range) still
\* advances pc by one.
C23_PcAdvancesOnFault == [][C23_AdvanceStep]_vars

\* the pass-one step over a faulty instruction line, as the code has it
C23_AmendedStep ==
    (PassOneStep /\ FaultOf(NextLine) # "none") =>
        /\ printed' = Append(printed, <<lineNum', FaultOf(NextLine)>>)
        /\ asmPc' = asmPc + (IF FaultOf(NextLine) = "immediate" THEN 1 ELSE 0)
        /\ asmMemory'.len = asmPc'

\* C23, amended: an instruction line whose immediate is out of range emits a
\* zero word and advances pc by one; one with an unknown mnemonic or a bad
\* operand count emits nothing and leaves pc where it was, so the labels of
\* later lines are bound one offset lower than after a valid instruction.
C23_PcAdvancesOnlyOnBadImmediate == [][C23_AmendedStep]_vars

\* C23's case: pass one has diagnosed an immediate out of range and then an
\* unknown mnemonic on a line that defines a label, bound to offset 1
C23_Witness ==
    /\ phase = "passOne"
    /\ Len(printed) = 2
    /\ printed[1][2] = "immediate"
    /\ printed[2] = <<lineNum, "unknownMnemonic">>
    /\ asmPc = 1
    /\ "a" \in DOMAIN labels
    /\ labels["a"] = 1

\* ------------------------------------- simulator: the claims, continued
\* the step that enters run
C24_RunStartStep ==
    (~running /\ running') =>
        /\ cycles' = cycles + 1
        /\ pc' = (pc + 1) % WordMod

\* run can be called with PC on a breakpoint
C24_RunStartsOnBreakpoint ==
    (idle /\ pc \in breakPoints /\ cycles < MaxCycles) => ENABLED RunStart

\* C24: run executes one instruction cycle before its first test of the
\* breakpoint set: called with PC in the set it executes the instruction at
\* PC and can stop only at a later cycle boundary.
C24_RunExecutesFirstCycle ==
    [][C24_RunStartStep]_vars /\ [](C24_RunStartsOnBreakpoint)

\* C24's case: run stands at its first cycle boundary, one address past a
\* breakpoint that was set when it was called
C24_Witness ==
    /\ running
    /\ lastOp = "run"
    /\ cycles >= 2
    /\ ((pc + WordMod - 1) % WordMod) \in breakPoints

\* the addresses below the origin that a wrapped load would reach
WrapRange == 0 .. (At(objFile, 0) + (objFile.len - 1) - WordMod - 1)

\* a reload of an image that runs past the last address
C25_ReloadStep ==
    (reloadProgram /\ ~ImageFits) =>
        /\ \A a \in WrapRange : MemRead(memory', a) = MemRead(memory, a)
        /\ \A a \in (DOMAIN memory) \cup (DOMAIN memory') :
              a < At(objFile, 0) => MemRead(memory', a) = MemRead(memory, a)
        /\ DOMAIN memory' \subseteq 0 .. (WordMod - 1)
        /\ \A i \in 1 .. objFile.len - 1 :
              At(objFile, 0) + i - 1 < WordMod =>
                  MemRead(memory', At(objFile, 0) + i - 1) = At(objFile, i)

\* the reload of the constructor, on a memory of zeroes
C25_ConstructedMemory ==
    lastOp = "constructor" =>
        DOMAIN memory \subseteq At(objFile, 0) .. (WordMod - 1)

\* C25: reloadProgram does not wrap load addresses modulo 2^16: the words of
\* an image with o + N > 0x10000 that would fall above 0xFFFF are stored
\* nowhere, and memory from 0x0000 to o + N - 0x10001 is as it was.
C25_ReloadDoesNotWrap == [][C25_ReloadStep]_vars /\ [](C25_ConstructedMemory)

\* C25's case: a reload of the xFFFF image, whose second word has no
\* address, after the program has run: the first word is at xFFFF and
\* address 0 holds no word of the image
C25_Witness ==
    /\ lastOp = "reloadProgram"
    /\ ~ImageFits
    /\ cycles >= 1
    /\ MemRead(memory, WordMod - 1) = At(objFile, 1)
    /\ MemRead(memory, 0) # At(objFile, 2)
====
